---- MODULE Spec2Model ----
(***************************************************************************)
(* A model of internal/pkg/BlockchainC2/server.go: the agent registry of   *)
(* BlockchainServer, the inbound loop RecvFromAgentLoop and the outbound   *)
(* SendToAgent, which callers may run concurrently.                        *)
(***************************************************************************)
EXTENDS Integers, Sequences, FiniteSets, TLC

\* ------------------------------------------------------------- bounds
\* The largest positive value of the modelled signed integer (int64 in the
\* source, scaled down): values wrap into -(MaxSeq+1) .. MaxSeq.
MaxSeq == 2
\* The longest DataBuffer an accepted event may produce.
MaxBuf == 6
\* The number of SendToAgent calls started in one behaviour.
MaxCalls == 2
\* The seconds that pass in one behaviour.
MaxTime == 1
\* The wallet nonce the server is constructed with.
InitNonce == 0

AgentIDs == {"a1", "a2"}
Senders == {"s1", "s2"}
NoAgent == [none |-> TRUE]
NoKey == "nil"
NoCall == [agentID |-> "", rawData |-> <<>>, enc |-> FALSE, tmp |-> 0, n |-> 0]
\* Session keys an agent record can hold, and the keys a peer may encrypt with.
Keys == {"K1"}
PeerKeys == {"K1", "K2"}
\* A stored key that the cipher refuses (not of a key's length).
BadKeys == {"K0"}
MsgIDs == {1}
DataVals == {"whoami"}

\* ------------------------------------------------------------- integers
IntMod == 2 * (MaxSeq + 1)
\* newEvent.Seq.Int64(): the low bits of the big integer, as a signed value.
Int64(x) ==
    LET r == x % IntMod
    IN IF r > MaxSeq THEN r - IntMod ELSE r
\* The sequence numbers an event can carry on the wire (a big.Int >= 0).
WireSeqs == 0 .. MaxSeq + 1

\* ------------------------------------------------------------- envelope
\* BlockchainC2{AgentID, MsgID, Data}; the zero value is what json.Unmarshal
\* starts from.
ZeroCommand == [AgentID |-> "", MsgID |-> 0, Data |-> ""]
Command(agentID, msgID, data) == [AgentID |-> agentID, MsgID |-> msgID, Data |-> data]

\* A serialized text is a sequence of tokens: "{", "}", and one token per
\* member (an AgentID member is written as the id, a Data member as the data,
\* a MsgID member as "m<n>").
MsgTok(m) == IF m = 0 THEN "m0" ELSE "m1"
MsgToks == {"m0", "m1"}
MsgOfTok(t) == IF t = "m0" THEN 0 ELSE 1
MemberToks == AgentIDs \cup MsgToks \cup DataVals

\* json.Marshal(command): every field, in declaration order.
Marshal(c) == <<"{", c.AgentID, MsgTok(c.MsgID), c.Data, "}">>

\* One member applied to the value decoded so far (a repeated member
\* overwrites, members come in any order).
ApplyMember(c, t) ==
    IF t \in AgentIDs THEN [c EXCEPT !.AgentID = t]
    ELSE IF t \in MsgToks THEN [c EXCEPT !.MsgID = MsgOfTok(t)]
    ELSE [c EXCEPT !.Data = t]

RECURSIVE ApplyMembers(_, _)
ApplyMembers(c, s) ==
    IF s = <<>> THEN c ELSE ApplyMembers(ApplyMember(c, Head(s)), Tail(s))

\* json.Unmarshal([]byte(text), &c2): an object of known members, or an error.
Unmarshal(text) ==
    IF /\ Len(text) >= 2
       /\ text[1] = "{"
       /\ text[Len(text)] = "}"
       /\ \A i \in 2 .. Len(text) - 1 : text[i] \in MemberToks
    THEN [err |-> FALSE, val |-> ApplyMembers(ZeroCommand, SubSeq(text, 2, Len(text) - 1))]
    ELSE [err |-> TRUE, val |-> ZeroCommand]

\* ------------------------------------------------------------- crypto
\* Utils.SymmetricEncrypt / Utils.SymmetricDecrypt: a ciphertext is the
\* plaintext under the tag of its key; no key, an untagged text or another
\* key's tag is an error.
SymmetricEncrypt(plain, key) ==
    IF key = NoKey \/ key \in BadKeys THEN [err |-> TRUE, val |-> <<>>]
    ELSE [err |-> FALSE, val |-> <<key>> \o plain]

SymmetricDecrypt(cipher, key) ==
    IF key # NoKey /\ key \notin BadKeys /\ cipher # <<>> /\ Head(cipher) = key
    THEN [err |-> FALSE, val |-> Tail(cipher)]
    ELSE [err |-> TRUE, val |-> <<>>]

\* ------------------------------------------------------------- state
VARIABLES
    Agents,     \* bc.Agents: AgentID -> Agent record, or NoAgent
    Nonce,      \* bc.Auth.Nonce
    o,          \* the commands sent on the channel o, oldest first
    newEvent,   \* what the loop did with the event it received last
    pending,    \* per agent: the payloads accepted since the last final one
    accepted,   \* per agent: the highest sequence number accepted so far
    lastFinal,  \* per agent: what its last accepted final chunk led to
    transport,  \* the calls of AddClientData, oldest first
    pc,         \* per sender: its place in SendToAgent
    call,       \* per sender: the arguments and locals of its call
    ret,        \* per sender: what its last call returned
    calls,      \* the number of SendToAgent calls started
    Running,    \* bc.Running
    loop,       \* where RecvFromAgentLoop is: "recv" at line 154, or "exited"
    sub,        \* the subscription of WatchServerData: "live" or "failed"
    clock       \* what time.Now() returns, in seconds

vars == <<Agents, Nonce, o, newEvent, pending, accepted, lastFinal, transport, pc, call, ret, calls,
          Running, loop, sub, clock>>
sendVars == <<Nonce, transport, pc, call, ret, calls>>
envVars == <<Running, loop, sub, clock>>

\* ------------------------------------------------------------- registry
\* GetAgentByID: the record, or nil.
GetAgentByID(agents, agentID) == agents[agentID]

\* Lines 73-79: the record of a new agent. LastSeen is the time of the call,
\* in the seconds that the layout of line 75 keeps.
NewAgent(agentID) ==
    [AgentID |-> agentID, LastSeen |-> clock, Seq |-> 0, OutSeq |-> 0,
     DataBuffer |-> <<>>, SessionKey |-> NoKey, Status |-> "Handshake"]

\* The registry after a call that stores a new record every time.
AlwaysCreateAgent(agents, agentID) == [agents EXCEPT ![agentID] = NewAgent(agentID)]

\* GetOrCreateAgent: the registry after the call.
GetOrCreateAgent(agents, agentID) ==
    IF GetAgentByID(agents, agentID) # NoAgent THEN agents
    ELSE [agents EXCEPT ![agentID] = NewAgent(agentID)]

\* ------------------------------------------------------------- inbound
\* The test with < for <=: an event at the watermark passes.
IsStaleStrict(seq, agent) == Int64(seq) < agent.Seq

\* The loop without the test: every event is taken.
IsStaleNever(seq, agent) == FALSE

\* The test that takes the next sequence number only.
IsStaleOrGap(seq, agent) == Int64(seq) # agent.Seq + 1

\* The test of line 160: a duplicate or an old event.
IsStale(seq, agent) == Int64(seq) <= agent.Seq

\* The acceptance without line 165: the watermark stays.
AcceptKeepSeq(agent, ev) == [agent EXCEPT !.DataBuffer = @ \o ev.Data]

\* The acceptance with the payload put before the buffer.
AcceptPrepend(agent, ev) ==
    [agent EXCEPT !.Seq = Int64(ev.Seq), !.DataBuffer = ev.Data \o @]

\* Lines 165-168: the agent after the event is accepted.
Accept(agent, ev) ==
    [agent EXCEPT !.Seq = Int64(ev.Seq), !.DataBuffer = @ \o ev.Data]

\* The decoding with the decryption error ignored: the buffer is parsed as
\* it stands.
DecodeIgnoringError(agent, ev) ==
    LET raw == SymmetricDecrypt(agent.DataBuffer, agent.SessionKey)
        text == IF ev.Enc /\ ~raw.err THEN raw.val
                ELSE IF ev.Enc THEN Tail(agent.DataBuffer) ELSE agent.DataBuffer
        c2 == Unmarshal(text)
    IN IF c2.err THEN <<>> ELSE <<c2.val>>

\* Lines 173-189: what a final chunk sends on o (nothing on an error).
Decode(agent, ev) ==
    IF ev.Enc
    THEN LET raw == SymmetricDecrypt(agent.DataBuffer, agent.SessionKey)
         IN IF raw.err THEN <<>>
            ELSE LET c2 == Unmarshal(raw.val)
                 IN IF c2.err THEN <<>> ELSE <<c2.val>>
    ELSE LET c2 == Unmarshal(agent.DataBuffer)
         IN IF c2.err THEN <<>> ELSE <<c2.val>>

\* The record made anew after a final chunk, with its watermark kept.
ClearWholeRecord(agent, emitted) == [NewAgent(agent.AgentID) EXCEPT !.Seq = agent.Seq]

\* The buffer cleared only when a command was sent on o.
ClearOnSuccess(agent, emitted) ==
    IF emitted = <<>> THEN agent ELSE [agent EXCEPT !.DataBuffer = <<>>]

\* Line 192: the buffer after a final chunk.
ClearBuffer(agent, emitted) == [agent EXCEPT !.DataBuffer = <<>>]

\* The message a peer fragments in the model, and its ciphertexts.
Wire == Marshal(Command("a1", 1, "whoami"))
Fragments ==
    { SubSeq(Wire, 1, 2), SubSeq(Wire, 3, 5), Wire }
        \cup { SymmetricEncrypt(Wire, k).val : k \in PeerKeys }

\* The events the transport may deliver: a1's messages arrive whole or in
\* pieces, in clear or encrypted; a2's arrive whole and in clear.
Events ==
    { ev \in [AgentID : AgentIDs, Seq : WireSeqs, Data : Fragments,
              F : BOOLEAN, Enc : BOOLEAN] :
        ev.AgentID = "a2" => ev.Data = Wire }

\* The envelopes a peer may have serialized.
Envelopes == { Command(a, m, d) : a \in AgentIDs, m \in MsgIDs, d \in DataVals }

\* The payloads of a message, joined.
RECURSIVE Concat(_)
Concat(ps) == IF ps = <<>> THEN <<>> ELSE Head(ps) \o Concat(Tail(ps))

\* What the model keeps of the event the loop received last: its agent and
\* final flag; created, the registry did not hold the agent; old, its
\* sequence number is at or below the agent's Seq (0 for a new agent);
\* greater, its sequence number as the transport carries it is above the
\* agent's Seq;
\* redelivered, it is at or below a sequence number accepted before; late,
\* it is not final and below a sequence number accepted before; orphan, it
\* is an accepted final chunk in clear that carries the last piece of Wire
\* while the payloads accepted before it are not the pieces before; pieces,
\* the number of payloads accepted since the last accepted final chunk, this
\* one included;
\* envelope, the envelope that these payloads serialize when the event is an
\* accepted final chunk in clear; badKey, an accepted encrypted final chunk
\* that the agent's session key does not open; after, for an accepted event,
\* what the agent's last accepted final chunk led to; and did, what the loop
\* did.
Note(ev, did) ==
    LET id == ev.AgentID
        created == Agents[id] = NoAgent
        above == Int64(ev.Seq) > (IF created THEN 0 ELSE Agents[id].Seq)
        key == IF created THEN NoKey ELSE Agents[id].SessionKey
        whole == Concat(pending[id]) \o ev.Data
    IN [AgentID |-> id, F |-> ev.F,
        created |-> created,
        old |-> ~above,
        greater |-> ev.Seq > (IF created THEN 0 ELSE Agents[id].Seq),
        redelivered |-> accepted[id] > 0 /\ ev.Seq <= accepted[id],
        late |-> ~ev.F /\ ev.Seq < accepted[id],
        orphan |-> /\ above /\ ev.F /\ ~ev.Enc
                   /\ ev.Data = SubSeq(Wire, 3, 5) /\ whole # Wire,
        pieces |-> IF above THEN Len(pending[id]) + 1 ELSE 0,
        envelope |-> IF above /\ ev.F /\ ~ev.Enc /\ whole \in { Marshal(c) : c \in Envelopes }
                     THEN <<CHOOSE c \in Envelopes : Marshal(c) = whole>>
                     ELSE <<>>,
        badKey |-> /\ above /\ ev.F /\ ev.Enc
                   /\ (key = NoKey \/ whole = <<>> \/ Head(whole) # key),
        after |-> IF above THEN lastFinal[id] ELSE "none",
        did |-> did]

\* One iteration of RecvFromAgentLoop, for the event ev.
Recv(ev) ==
    LET id == ev.AgentID
        reg == GetOrCreateAgent(Agents, id)
        agent == reg[id]
    IN IF IsStale(ev.Seq, agent)
       THEN /\ Agents' = reg
            /\ o' = o
            /\ UNCHANGED <<pending, accepted, lastFinal>>
            /\ newEvent' = Note(ev, "stale")
       ELSE LET acc == Accept(agent, ev)
                sent == IF ev.F THEN Decode(acc, ev) ELSE <<>>
                did == IF ~ev.F THEN "buffered"
                       ELSE IF sent = <<>> THEN "dropped" ELSE "emitted"
            IN /\ Len(acc.DataBuffer) <= MaxBuf
               /\ Agents' = [reg EXCEPT ![id] =
                                IF ev.F THEN ClearBuffer(acc, sent) ELSE acc]
               /\ o' = o \o sent
               /\ pending' = [pending EXCEPT ![id] =
                                IF ev.F THEN <<>> ELSE Append(@, ev.Data)]
               /\ accepted' = [accepted EXCEPT ![id] = ev.Seq]
               /\ lastFinal' = [lastFinal EXCEPT ![id] =
                                  IF ~ev.F THEN @
                                  ELSE IF Note(ev, did).badKey THEN "badkey" ELSE did]
               /\ newEvent' = Note(ev, did)

\* The loop takes an event from EventChannel (line 154), which the
\* subscription feeds while it is live, and never leaves the for of line 151.
RecvFromAgentLoop ==
    /\ loop = "recv"
    /\ sub = "live"
    /\ \E ev \in Events : Recv(ev)
    /\ UNCHANGED <<sendVars, envVars>>

\* ------------------------------------------------------------- session key
\* The command layer stores the negotiated key in the agent record, once.
SetSessionKey(a, k) ==
    /\ Agents[a] # NoAgent
    /\ Agents[a].SessionKey = NoKey
    /\ Agents' = [Agents EXCEPT ![a].SessionKey = k, ![a].Status = "Active"]
    /\ UNCHANGED <<Nonce, o, newEvent, pending, accepted, lastFinal, transport, pc, call, ret, calls, envVars>>

\* ------------------------------------------------------------- outbound
\* The preparation that does not look at the cipher's error.
PrepareIgnoringError(bytes, key, encrypt) ==
    IF key # NoKey
    THEN [err |-> FALSE, rawData |-> SymmetricEncrypt(bytes, key).val, enc |-> TRUE]
    ELSE [err |-> FALSE, rawData |-> bytes, enc |-> FALSE]

\* The preparation that encrypts only when the caller asks for it.
PrepareWhenAsked(bytes, key, encrypt) ==
    IF encrypt /\ key # NoKey
    THEN LET c == SymmetricEncrypt(bytes, key)
         IN [err |-> c.err, rawData |-> c.val, enc |-> TRUE]
    ELSE [err |-> FALSE, rawData |-> bytes, enc |-> FALSE]

\* Lines 112-123: the text to send and its enc flag, for the key read. The
\* encrypt argument of SendToAgent is not used.
Prepare(bytes, key, encrypt) ==
    IF key # NoKey
    THEN LET c == SymmetricEncrypt(bytes, key)
         IN [err |-> c.err, rawData |-> c.val, enc |-> TRUE]
    ELSE [err |-> FALSE, rawData |-> bytes, enc |-> FALSE]

\* The lookup that makes a record for an agent the registry lacks.
LookupOrNew(agents, agentID) == GetOrCreateAgent(agents, agentID)[agentID]

\* Line 101: the agent the call looks up.
Lookup(agents, agentID) == GetAgentByID(agents, agentID)

\* Line 102: agent != nil.
Registered(agent) == agent # NoAgent

\* Lines 94-123: the call up to the increment. It returns at once for an
\* agent the registry does not hold, or when the encryption fails. The
\* lookup and the read of the key are one step: a key stored between them
\* acts as one stored before the call. n numbers the calls in their order.
SendCall(s, agentID, data, msgID, encrypt) ==
    /\ pc[s] = "idle"
    /\ calls < MaxCalls
    /\ calls' = calls + 1
    /\ LET command == Command(agentID, msgID, data)
           agent == Lookup(Agents, agentID)
       IN IF ~Registered(agent)
          THEN /\ ret' = [ret EXCEPT ![s] = "AgentID could not be found"]
               /\ call' = [call EXCEPT ![s] = [NoCall EXCEPT !.agentID = agentID, !.n = calls']]
               /\ UNCHANGED pc
          ELSE LET p == Prepare(Marshal(command), agent.SessionKey, encrypt)
               IN IF p.err
                  THEN /\ ret' = [ret EXCEPT ![s] = "EncryptError"]
                       /\ call' = [call EXCEPT ![s] = [NoCall EXCEPT !.agentID = agentID, !.n = calls']]
                       /\ UNCHANGED pc
                  ELSE /\ pc' = [pc EXCEPT ![s] = "inc_read"]
                       /\ call' = [call EXCEPT ![s] =
                                     [agentID |-> agentID, rawData |-> p.rawData,
                                      enc |-> p.enc, tmp |-> 0, n |-> calls']]
                       /\ ret' = [ret EXCEPT ![s] = "running"]
    /\ UNCHANGED <<Agents, Nonce, o, newEvent, pending, accepted, lastFinal, transport, envVars>>

\* Line 126, agent.OutSeq++ : the load ...
SendIncRead(s) ==
    /\ pc[s] = "inc_read"
    /\ pc' = [pc EXCEPT ![s] = "inc_write"]
    /\ call' = [call EXCEPT ![s].tmp = Agents[call[s].agentID].OutSeq]
    /\ UNCHANGED <<Agents, Nonce, o, newEvent, pending, accepted, lastFinal, transport, ret, calls, envVars>>

\* ... and the store of the loaded value plus one.
SendIncWrite(s) ==
    /\ pc[s] = "inc_write"
    /\ pc' = [pc EXCEPT ![s] = "submit"]
    /\ Agents' = [Agents EXCEPT ![call[s].agentID].OutSeq = call[s].tmp + 1]
    /\ UNCHANGED <<Nonce, o, newEvent, pending, accepted, lastFinal, transport, call, ret, calls, envVars>>

\* Lines 129-136: the record of one AddClientData call. The sequence number
\* is agent.OutSeq as it is when the arguments are evaluated, the ordering
\* token is bc.Auth.Nonce as the transactor reads it.
Submission(s, ok) ==
    [AgentID |-> call[s].agentID, Data |-> call[s].rawData,
     Seq |-> Agents[call[s].agentID].OutSeq, F |-> TRUE, Enc |-> call[s].enc,
     Token |-> Nonce, ok |-> ok]

\* Lines 137-139: where the call goes after the submission.
AfterSubmit(ok) == IF ok THEN "nonce_read" ELSE "idle"

\* Lines 129-139: the submission, which the transport accepts or refuses;
\* a refusal is returned to the caller before line 142.
SendSubmit(s, ok) ==
    /\ pc[s] = "submit"
    /\ transport' = Append(transport, Submission(s, ok))
    /\ pc' = [pc EXCEPT ![s] = AfterSubmit(ok)]
    /\ ret' = [ret EXCEPT ![s] = IF AfterSubmit(ok) = "idle" THEN "TransportError" ELSE @]
    /\ UNCHANGED <<Agents, Nonce, o, newEvent, pending, accepted, lastFinal, call, calls, envVars>>

\* Line 142, Nonce.Add(Nonce, 1) on the shared big.Int: the read ...
SendNonceRead(s) ==
    /\ pc[s] = "nonce_read"
    /\ pc' = [pc EXCEPT ![s] = "nonce_write"]
    /\ call' = [call EXCEPT ![s].tmp = Nonce]
    /\ UNCHANGED <<Agents, Nonce, o, newEvent, pending, accepted, lastFinal, transport, ret, calls, envVars>>

\* ... and the write of the sum; the call returns nil.
SendNonceWrite(s) ==
    /\ pc[s] = "nonce_write"
    /\ Nonce' = call[s].tmp + 1
    /\ pc' = [pc EXCEPT ![s] = "idle"]
    /\ ret' = [ret EXCEPT ![s] = "nil"]
    /\ UNCHANGED <<Agents, o, newEvent, pending, accepted, lastFinal, transport, call, calls, envVars>>

SendToAgent(s) ==
    \/ \E agentID \in AgentIDs, data \in DataVals, msgID \in MsgIDs, encrypt \in BOOLEAN :
          SendCall(s, agentID, data, msgID, encrypt)
    \/ SendIncRead(s)
    \/ SendIncWrite(s)
    \/ \E ok \in BOOLEAN : SendSubmit(s, ok)
    \/ SendNonceRead(s)
    \/ SendNonceWrite(s)

\* The first event of an agent, as the dispatcher's runs receive it.
HandshakeEvents == { ev \in Events : ev.Seq = 1 /\ ev.F /\ ~ev.Enc /\ ev.Data = Wire }

RecvHandshake ==
    /\ loop = "recv"
    /\ sub = "live"
    /\ \E ev \in HandshakeEvents : Recv(ev)
    /\ UNCHANGED <<sendVars, envVars>>

\* The events of the runs of one caller: under the first two sequence
\* numbers, in clear, a whole message as a final chunk or the first piece of
\* one as a chunk that is not final; of a2, its first message only.
FrameEvents ==
    { ev \in Events : /\ ev.Seq \in {1, 2} /\ ~ev.Enc
                      /\ ev.Data = (IF ev.F THEN Wire ELSE SubSeq(Wire, 1, 2))
                      /\ ev.AgentID = "a2" => ev.Seq = 1 }

RecvFrame ==
    /\ loop = "recv"
    /\ sub = "live"
    /\ \E ev \in FrameEvents : Recv(ev)
    /\ UNCHANGED <<sendVars, envVars>>

\* ------------------------------------------------------------- owner
\* The owner of the server asks it to stop: it clears Running, the flag
\* that CreateBlockchainServer sets at line 251. No line of the server
\* reads the flag.
Stop ==
    /\ Running
    /\ Running' = FALSE
    /\ UNCHANGED <<Agents, o, newEvent, pending, accepted, lastFinal, sendVars, loop, sub, clock>>

\* ------------------------------------------------------------- transport
\* The subscription that WatchServerData returned at line 261 fails: from
\* then on it feeds no event into EventChannel. The server dropped the
\* subscription at line 261, so nothing of it hears of the failure.
SubscriptionFails ==
    /\ sub = "live"
    /\ sub' = "failed"
    /\ UNCHANGED <<Agents, o, newEvent, pending, accepted, lastFinal, sendVars, Running, loop, clock>>

\* A second passes.
Tick ==
    /\ clock < MaxTime
    /\ clock' = clock + 1
    /\ UNCHANGED <<Agents, o, newEvent, pending, accepted, lastFinal, sendVars, Running, loop, sub>>

\* ------------------------------------------------------------- init
Init ==
    /\ Agents = [a \in AgentIDs |-> NoAgent]
    /\ Nonce = InitNonce
    /\ o = <<>>
    /\ newEvent = [AgentID |-> "", F |-> FALSE, created |-> FALSE,
                   old |-> FALSE, greater |-> FALSE, redelivered |-> FALSE,
                   late |-> FALSE, orphan |-> FALSE,
                   pieces |-> 0, envelope |-> <<>>,
                   badKey |-> FALSE, after |-> "none", did |-> "none"]
    /\ pending = [a \in AgentIDs |-> <<>>]
    /\ accepted = [a \in AgentIDs |-> 0]
    /\ lastFinal = [a \in AgentIDs |-> "none"]
    /\ transport = <<>>
    /\ pc = [s \in Senders |-> "idle"]
    /\ call = [s \in Senders |-> NoCall]
    /\ ret = [s \in Senders |-> "none"]
    /\ calls = 0
    /\ Running = TRUE
    /\ loop = "recv"
    /\ sub = "live"
    /\ clock = 0

NextRecv ==
    \/ RecvFromAgentLoop
    \/ \E a \in AgentIDs, k \in Keys : SetSessionKey(a, k)

\* The inbound pipeline: every event the transport may deliver.
SpecRecv == Init /\ [][NextRecv]_vars

NextSend ==
    \/ RecvHandshake
    \/ \E a \in AgentIDs, k \in Keys : SetSessionKey(a, k)
    \/ \E s \in Senders : SendToAgent(s)

\* The dispatcher: concurrent SendToAgent calls to agents that handshakes
\* have registered.
SpecSend == Init /\ [][NextSend]_vars

NextLoop ==
    \/ RecvFromAgentLoop
    \/ \E a \in AgentIDs, k \in Keys : SetSessionKey(a, k)
    \/ Stop
    \/ SubscriptionFails

\* The loop, its owner and its subscription. The loop is a goroutine of its own (it blocks at
\* line 154 only), so an event that stays available is taken.
SpecLoop == Init /\ [][NextLoop]_vars /\ WF_vars(RecvFromAgentLoop)

NextFrame ==
    \/ RecvFrame
    \/ \E a \in AgentIDs, k \in Keys \cup BadKeys : SetSessionKey(a, k)
    \/ SendToAgent("s1")

\* One caller of SendToAgent beside the loop; a stored key may be one the
\* cipher refuses.
SpecFrame == Init /\ [][NextFrame]_vars

NextTime ==
    \/ RecvFromAgentLoop
    \/ Tick

\* The loop while time passes.
SpecTime == Init /\ [][NextTime]_vars

\* ------------------------------------------------------------- properties
\* The steps of RecvFromAgentLoop: the steps that leave the dispatcher's
\* state and every stored session key as they are.
KeysUnchanged ==
    \A a \in AgentIDs :
        Agents[a] # NoAgent => Agents'[a].SessionKey = Agents[a].SessionKey
RecvStep == (UNCHANGED sendVars) /\ KeysUnchanged

\* The steps of RecvFromAgentLoop where other steps change the owner's flag,
\* the subscription or the clock.
LoopStep == RecvStep /\ UNCHANGED envVars

\* The record an event's agent has once GetOrCreateAgent returned.
Current(id) == IF Agents[id] = NoAgent THEN NewAgent(id) ELSE Agents[id]

\* C1: an agent's Seq never decreases, and an event whose sequence number is
\* at or below the agent's Seq changes neither Seq nor DataBuffer nor Status
\* of that agent, also when it is marked final and the buffer holds a part.
C1_StaleIsNoOp ==
    [][ /\ \A a \in AgentIDs :
              Agents[a] # NoAgent =>
                  Agents'[a] # NoAgent /\ Agents'[a].Seq >= Agents[a].Seq
        /\ (RecvStep /\ newEvent'.old) =>
              LET id == newEvent'.AgentID
              IN /\ Agents'[id].Seq = Current(id).Seq
                 /\ Agents'[id].DataBuffer = Current(id).DataBuffer
                 /\ Agents'[id].Status = Current(id).Status
      ]_vars

\* A final event at or below the watermark was received while the buffer
\* held the first part of a message.
C1_Witness ==
    /\ newEvent.old /\ newEvent.F /\ newEvent.did = "stale"
    /\ Agents[newEvent.AgentID].DataBuffer # <<>>

\* C2: an event at or below a sequence number accepted before for its agent
\* sends nothing on o and leaves DataBuffer as it is; o grows by at most one
\* command per event, and only on a final event above every sequence number
\* accepted before.
C2_RedeliveryEmitsNothing ==
    [][ RecvStep =>
          LET id == newEvent'.AgentID
          IN /\ newEvent'.redelivered =>
                   o' = o /\ Agents'[id].DataBuffer = Agents[id].DataBuffer
             /\ Len(o') <= Len(o) + 1
             /\ SubSeq(o', 1, Len(o)) = o
             /\ o' # o =>
                   /\ newEvent'.F
                   /\ ~newEvent'.redelivered
                   /\ accepted'[id] > accepted[id]
      ]_vars

\* A final event that had led to a command was delivered again.
C2_Witness ==
    /\ newEvent.redelivered /\ newEvent.F /\ newEvent.did = "stale"
    /\ lastFinal[newEvent.AgentID] = "emitted"
    /\ Len(o) >= 1

\* C3: when the payloads accepted for an agent since its last final chunk,
\* with that of an accepted final chunk in clear, are the serialization of an
\* envelope, that chunk sends exactly this envelope on o and leaves DataBuffer
\* empty; an accepted chunk that is not final sends nothing.
C3_FragmentRoundTrip ==
    [][ RecvStep =>
          LET id == newEvent'.AgentID
          IN /\ newEvent'.envelope # <<>> =>
                   /\ o' = o \o newEvent'.envelope
                   /\ Agents'[id].DataBuffer = <<>>
             /\ (~newEvent'.old /\ ~newEvent'.F) => o' = o
      ]_vars

\* An envelope that came in two pieces was emitted.
C3_Witness ==
    /\ newEvent.envelope # <<>> /\ newEvent.pieces >= 2 /\ newEvent.did = "emitted"
    /\ o # <<>> /\ o[Len(o)] = newEvent.envelope[1]
    /\ Agents[newEvent.AgentID].DataBuffer = <<>>

\* C4: no two calls of AddClientData for one agent carry the same sequence
\* number, so the sequence numbers used for an agent are as many as its
\* submissions.
C4_DistinctOutSeq ==
    \A i, j \in 1 .. Len(transport) :
        (i < j /\ transport[i].AgentID = transport[j].AgentID) =>
            transport[i].Seq # transport[j].Seq

\* C5: a SendToAgent call for an agent the registry does not hold returns
\* the not-found error at once: no AddClientData call, no agent record made
\* or changed, Auth.Nonce as it was.
C5_UnknownAgentRejected ==
    [][ \A s \in Senders :
          (/\ calls' = calls + 1
           /\ call'[s].n = calls'
           /\ Agents[call'[s].agentID] = NoAgent) =>
              /\ ret'[s] = "AgentID could not be found"
              /\ pc'[s] = "idle"
              /\ transport' = transport
              /\ Agents' = Agents
              /\ Nonce' = Nonce
      ]_vars

\* A call was rejected for an agent the registry still lacks, after a
\* submission for a registered one.
C5_Witness ==
    \E s \in Senders :
        /\ ret[s] = "AgentID could not be found"
        /\ pc[s] = "idle"
        /\ Agents[call[s].agentID] = NoAgent
        /\ transport # <<>>

\* C6: every AddClientData call, accepted or refused, advances Auth.Nonce by
\* one: once no call is between its submission and its nonce update,
\* Auth.Nonce is the initial nonce plus the number of submissions.
C6_NonceAdvancesPerSubmission ==
    (\A s \in Senders : pc[s] \notin {"nonce_read", "nonce_write"}) =>
        Nonce = InitNonce + Len(transport)

\* C7: a submission made after an accepted one carries a greater ordering
\* token.
C7_TokensIncrease ==
    \A i, j \in 1 .. Len(transport) :
        (i < j /\ transport[i].ok) => transport[i].Token < transport[j].Token

\* C8: an accepted encrypted final chunk that the agent's session key does
\* not open (no key, or another key's ciphertext) sends nothing on o and
\* leaves DataBuffer empty, and the loop goes on: an envelope that the agent
\* delivers in clear next is emitted.
C8_BadKeyDropsMessage ==
    [][ RecvStep =>
          /\ newEvent'.badKey =>
                /\ o' = o
                /\ Agents'[newEvent'.AgentID].DataBuffer = <<>>
                /\ newEvent'.did = "dropped"
          /\ (newEvent'.after = "badkey" /\ newEvent'.envelope # <<>>) =>
                /\ o' = o \o newEvent'.envelope
                /\ newEvent'.did = "emitted"
      ]_vars

\* An agent's encrypted final chunk was dropped for its key, and the loop
\* then received and emitted the agent's next envelope.
C8_Witness ==
    /\ newEvent.after = "badkey" /\ newEvent.did = "emitted"
    /\ newEvent.envelope # <<>>
    /\ o # <<>> /\ o[Len(o)] = newEvent.envelope[1]
    /\ Agents[newEvent.AgentID].DataBuffer = <<>>

\* C9: an accepted final chunk leaves DataBuffer empty whether it emitted or
\* not; DataBuffer always holds just the payloads accepted since the last
\* accepted final chunk; and an envelope delivered in clear after a message
\* that failed is emitted as it was sent.
C9_NoLeak ==
    [][ /\ \A a \in AgentIDs :
              Agents'[a] # NoAgent => Agents'[a].DataBuffer = Concat(pending'[a])
        /\ RecvStep =>
              LET id == newEvent'.AgentID
              IN /\ (~newEvent'.old /\ newEvent'.F) => Agents'[id].DataBuffer = <<>>
                 /\ (newEvent'.after \in {"dropped", "badkey"} /\ newEvent'.envelope # <<>>) =>
                       o' = o \o newEvent'.envelope
      ]_vars

\* After a final chunk in clear that emitted nothing, an envelope was
\* emitted for the same agent.
C9_Witness ==
    /\ newEvent.after = "dropped" /\ newEvent.envelope # <<>>
    /\ newEvent.did = "emitted"
    /\ o # <<>> /\ o[Len(o)] = newEvent.envelope[1]

\* C10: an event of an agent the registry lacks makes a record in state
\* Handshake with Seq 0, OutSeq 0, an empty buffer and no key, which the event
\* is then processed against; an event of a known agent keeps its record
\* (OutSeq, SessionKey and Status as they were, Seq not lowered, the whole
\* record when the event is old); no event touches another agent's record.
C10_LazyCreation ==
    [][ RecvStep =>
          LET id == newEvent'.AgentID
              now == Agents'[id]
          IN /\ \A b \in AgentIDs \ {id} : Agents'[b] = Agents[b]
             /\ now # NoAgent
             /\ now.AgentID = id
             /\ newEvent'.created = (Agents[id] = NoAgent)
             /\ IF Agents[id] = NoAgent
                THEN /\ now.OutSeq = 0
                     /\ now.SessionKey = NoKey
                     /\ now.Status = "Handshake"
                     /\ now.DataBuffer = Concat(pending'[id])
                     /\ now.Seq = accepted'[id]
                     /\ newEvent'.old =>
                           now.Seq = 0 /\ now.DataBuffer = <<>>
                ELSE /\ now.OutSeq = Agents[id].OutSeq
                     /\ now.SessionKey = Agents[id].SessionKey
                     /\ now.Status = Agents[id].Status
                     /\ now.Seq >= Agents[id].Seq
                     /\ newEvent'.old => now = Agents[id]
      ]_vars

\* An event of an unknown agent made its record, and an event of a known
\* agent with a session key was received.
C10_Witness ==
    /\ newEvent.did # "none" /\ ~newEvent.created
    /\ Agents[newEvent.AgentID].Status = "Active"
    /\ \E b \in AgentIDs :
          /\ b # newEvent.AgentID
          /\ Agents[b] # NoAgent /\ Agents[b].Status = "Handshake"

\* C11: the AddClientData calls for one agent reach the transport in the
\* order of their sequence numbers: of two submissions for the same agent,
\* the later one carries the greater sequence number.
C11_SubmissionOrder ==
    \A i, j \in 1 .. Len(transport) :
        (i < j /\ transport[i].AgentID = transport[j].AgentID) =>
            transport[i].Seq < transport[j].Seq

\* C12: a call that reaches the submission has raised the agent's OutSeq by
\* exactly one and submits the value its own increment stored; the
\* submission, accepted or refused, leaves OutSeq at that value, and a
\* refusal is returned as the TransportError.
C12_SubmitsIncrementedSeq ==
    [][ \A s \in Senders :
          LET a == call[s].agentID
          IN /\ (pc[s] = "inc_write" /\ pc'[s] = "submit") =>
                   Agents'[a].OutSeq = Agents[a].OutSeq + 1
             /\ (pc[s] = "submit" /\ pc'[s] # "submit") =>
                   /\ Len(transport') = Len(transport) + 1
                   /\ transport'[Len(transport')].Seq = call[s].tmp + 1
                   /\ Agents'[a].OutSeq = Agents[a].OutSeq
                   /\ ~transport'[Len(transport')].ok => ret'[s] = "TransportError"
      ]_vars

\* C13: once the owner has asked the server to stop, RecvFromAgentLoop
\* leaves its loop.
C13_StopExitsLoop == (~Running) ~> (loop = "exited")

\* C16: once the subscription has failed, RecvFromAgentLoop has left its
\* loop or has a step left to take: it is not left waiting at line 154 for
\* an event that cannot come.
C16_SubscriptionFailureEndsLoop ==
    sub = "failed" => (loop = "exited" \/ ENABLED RecvFromAgentLoop)

\* C14: a call for a registered agent prepares the encrypted envelope with
\* enc = true when the agent's SessionKey is set as the call reads it, and
\* the envelope in clear with enc = false when it is not, whatever the
\* encrypt argument is; the submission carries this text and flag, and every
\* submission is marked final.
C14_EncryptionFollowsKey ==
    [][ /\ \A i \in 1 .. Len(transport') : transport'[i].F
        /\ \A s \in Senders :
              /\ (/\ calls' = calls + 1
                  /\ call'[s].n = calls'
                  /\ pc'[s] = "inc_read") =>
                    LET a == call'[s].agentID
                        key == Agents[a].SessionKey
                    IN /\ Agents[a] # NoAgent
                       /\ call'[s].enc = (key # NoKey)
                       /\ \E m \in MsgIDs, d \in DataVals :
                             call'[s].rawData =
                                 IF key # NoKey
                                 THEN SymmetricEncrypt(Marshal(Command(a, m, d)), key).val
                                 ELSE Marshal(Command(a, m, d))
              /\ (pc[s] = "submit" /\ pc'[s] # "submit") =>
                    LET sent == transport'[Len(transport')]
                    IN /\ Len(transport') = Len(transport) + 1
                       /\ sent.AgentID = call[s].agentID
                       /\ sent.Data = call[s].rawData
                       /\ sent.Enc = call[s].enc
      ]_vars

\* An agent was sent a command in clear before its key was stored and an
\* encrypted one after.
C14_Witness ==
    \E i, j \in 1 .. Len(transport) :
        /\ i < j
        /\ transport[i].AgentID = transport[j].AgentID
        /\ ~transport[i].Enc /\ transport[j].Enc
        /\ Agents[transport[j].AgentID].SessionKey # NoKey
        /\ transport[j].Data =
              SymmetricEncrypt(transport[i].Data, Agents[transport[j].AgentID].SessionKey).val

\* C15: an agent's LastSeen is the time of the last event accepted for it:
\* an accepted event sets it to the time of the event, and an old event of
\* a known agent leaves it as it is.
C15_LastSeenIsLastAccepted ==
    [][ LoopStep =>
          LET id == newEvent'.AgentID
          IN /\ newEvent'.did \in {"buffered", "emitted", "dropped"} =>
                   Agents'[id].LastSeen = clock
             /\ (newEvent'.did = "stale" /\ Agents[id] # NoAgent) =>
                   Agents'[id].LastSeen = Agents[id].LastSeen
      ]_vars

C19_Frame ==
    [][ /\ \A a \in AgentIDs : Agents[a] # NoAgent => Agents'[a] # NoAgent
        /\ ((UNCHANGED sendVars) /\ (accepted' # accepted \/ newEvent' # newEvent)) =>
              \A a \in AgentIDs :
                 /\ Agents[a] # NoAgent =>
                       /\ Agents'[a].OutSeq = Agents[a].OutSeq
                       /\ Agents'[a].SessionKey = Agents[a].SessionKey
                 /\ a # newEvent'.AgentID => Agents'[a] = Agents[a]
        /\ sendVars' # sendVars =>
              \A a \in AgentIDs :
                 IF Agents[a] = NoAgent THEN Agents'[a] = NoAgent
                 ELSE /\ Agents'[a].Seq = Agents[a].Seq
                      /\ Agents'[a].DataBuffer = Agents[a].DataBuffer
                      /\ Agents'[a].Status = Agents[a].Status
                      /\ Agents'[a].OutSeq # Agents[a].OutSeq =>
                            \E s \in Senders :
                               pc[s] = "inc_write" /\ call[s].agentID = a
      ]_vars

\* A command was sent to an agent that holds a key, a message of that agent
\* was emitted and a part of its next one is in the buffer, beside a second
\* agent.
C19_Witness ==
    \E a, b \in AgentIDs :
        /\ a # b /\ Agents[a] # NoAgent /\ Agents[b] # NoAgent
        /\ Agents[a].OutSeq >= 1 /\ Agents[a].SessionKey # NoKey
        /\ Agents[a].Seq >= 2
        /\ Agents[a].DataBuffer # <<>>
        /\ newEvent.AgentID = a /\ newEvent.did = "buffered"
        /\ lastFinal[a] = "emitted"
        /\ transport # <<>> /\ transport[1].AgentID = a

\* C20: a call for a registered agent whose stored key the cipher refuses
\* returns the encryption error at once: OutSeq, Auth.Nonce and every record
\* stay as they are and AddClientData is not called.
C20_FailureBeforeSubmission ==
    [][ \A s \in Senders :
          (/\ calls' = calls + 1
           /\ call'[s].n = calls'
           /\ Agents[call'[s].agentID] # NoAgent
           /\ Agents[call'[s].agentID].SessionKey \in BadKeys) =>
              /\ ret'[s] = "EncryptError"
              /\ pc'[s] = "idle"
              /\ transport' = transport
              /\ Agents' = Agents
              /\ Nonce' = Nonce
      ]_vars

\* A call failed at the encryption after an earlier command had been
\* submitted to the same agent: that submission is still the only one.
C20_Witness ==
    \E s \in Senders :
        /\ ret[s] = "EncryptError" /\ pc[s] = "idle"
        /\ Agents[call[s].agentID] # NoAgent
        /\ Agents[call[s].agentID].SessionKey \in BadKeys
        /\ Agents[call[s].agentID].OutSeq = 1
        /\ Len(transport) = 1
        /\ Nonce = InitNonce + (IF transport[1].ok THEN 1 ELSE 0)
====
